---- MODULE Spec2Model ----
(***************************************************************************)
(* Model of the raid_tracker_dashboard backend.                             *)
(*                                                                         *)
(* The repository holds two backends:                                      *)
(*   - src/server.js: the server that is run (one MQTT client per           *)
(*     connect_mqtt request, kept in state.mqttConnections);                *)
(*   - the backend listed in src/README.md (lines 354-672): a single        *)
(*     state.mqttClient, connectMQTT / disconnectMQTT, disconnect_mqtt.      *)
(* The variable impl says which of the two a behaviour is running; it is    *)
(* chosen in Init and never changes.  The registry (devices, rfidScans),   *)
(* the viewer sessions and the MQTT client objects are common to both.      *)
(*                                                                         *)
(* JavaScript values are modelled as records [t, n, s] (type tag, number,   *)
(* string) so that `undefined`, `null`, strings and numbers can be told     *)
(* apart the way the code tells them apart.                                 *)
(***************************************************************************)
EXTENDS Integers, Sequences, FiniteSets, TLC

\* ------------------------------------------------------------------ bounds
\* bus messages delivered in one behaviour of Spec and of SpecFanout
MaxMsgs == 2
\* bus messages delivered in one behaviour of SpecIngest
MaxIngest == 2
\* MQTT client objects created in one behaviour of SpecBus (Spec creates one)
MaxClients == 2
\* error/close/offline/disconnect events and refused requests in one behaviour
MaxBusEvents == 1
\* scan events applied beyond the history size in one behaviour of SpecHistory
MaxOverflow == 3

\* ------------------------------------------------------- JavaScript values
Undef == [t |-> "undefined", n |-> 0, s |-> ""]
Null == [t |-> "null", n |-> 0, s |-> ""]
Num(k) == [t |-> "number", n |-> k, s |-> ""]
Str(x) == [t |-> "string", n |-> 0, s |-> x]
NaN == [t |-> "NaN", n |-> 0, s |-> ""]

\* !v : undefined, null, "", 0 and NaN are falsy
Falsy(v) ==
    \/ v.t \in {"undefined", "null", "NaN"}
    \/ v.t = "number" /\ v.n = 0
    \/ v.t = "string" /\ v.s = ""

\* a || b
OrElse(a, b) == IF Falsy(a) THEN b ELSE a

\* v * 1000 (ToNumber: undefined -> NaN, null -> 0, a non-numeric string -> NaN;
\* the strings of the model are all non-numeric and non-empty, or empty -> 0)
TimesThousand(v) ==
    CASE v.t = "number" -> Num(v.n * 1000)
      [] v.t = "null" -> Num(0)
      [] v.t = "string" /\ v.s = "" -> Num(0)
      [] OTHER -> NaN

\* new Date(ms).toISOString(): throws RangeError on an invalid date.  The result
\* is the instant written out, here the tag "iso" with the milliseconds.  (The
\* +-8.64e15 ms range of Date is beyond the numbers of the model.)
IsoThrows(ms) == ms.t # "number"
ToISOString(ms) == [t |-> "iso", n |-> ms.n, s |-> ""]

\* new Date(ms).toLocaleTimeString(): the time of day only; "Invalid Date" for NaN
ToLocaleTimeString(ms) ==
    IF ms.t # "number" THEN Str("Invalid Date")
    ELSE [t |-> "time", n |-> (ms.n \div 1000) % 86400, s |-> ""]

\* v.toFixed(4) throws TypeError unless v is a number
ToFixedThrows(v) == v.t \notin {"number", "NaN"}

\* ------------------------------------------------------------ URL strings
\* The text of a URL is the sequence of its pieces: the characters ":" and "/"
\* one by one and, between them, the runs of other characters.  A piece is
\* [c, d]: its characters and, when they are all digits, their number (-1
\* otherwise).  The string methods below work on the pieces as the JavaScript
\* methods work on the characters.
Word(x) == [c |-> x, d |-> -1]
Digits(k) == [c |-> ToString(k), d |-> k]
Colon == Word(":")
Slash == Word("/")
SchemeSep == << Colon, Slash, Slash >>
RECURSIVE Join(_)
Join(pieces) == IF pieces = <<>> THEN "" ELSE pieces[1].c \o Join(Tail(pieces))
\* a string value with its pieces
Text(pieces) == [t |-> "string", n |-> 0, s |-> Join(pieces), chars |-> pieces]

\* str.indexOf(sub), counted from 1 (0: not found)
IndexOf(str, sub) ==
    LET at == { i \in 1..(Len(str) - Len(sub) + 1) : SubSeq(str, i, i + Len(sub) - 1) = sub }
    IN IF at = {} THEN 0 ELSE CHOOSE i \in at : \A j \in at : i <= j
\* str.includes(sub)
Includes(str, sub) == IndexOf(str, sub) # 0
\* str.split(sep): the parts between the occurrences of sep
RECURSIVE Split(_, _)
Split(str, sep) ==
    IF ~Includes(str, sep) THEN << str >>
    ELSE << SubSeq(str, 1, IndexOf(str, sep) - 1) >>
         \o Split(SubSeq(str, IndexOf(str, sep) + Len(sep), Len(str)), sep)
\* str.lastIndexOf(ch), counted from 1 (0: not found)
LastIndexOf(str, ch) ==
    LET at == { i \in 1..Len(str) : str[i] = ch }
    IN IF at = {} THEN 0 ELSE CHOOSE i \in at : \A j \in at : i >= j
\* parseInt(str): the number of the leading digits, NaN when there are none
ParseInt(str) == IF str # <<>> /\ str[1].d >= 0 THEN Num(str[1].d) ELSE NaN
\* `${v}` of a number
NumberText(v) == IF v.t = "number" THEN Digits(v.n) ELSE Word("NaN")
\* protocol.includes(name), for name one of 'mqtts', 'wss': among the scheme
\* names of the model (mqtt, mqtts, ws, wss) a name only includes itself
ProtocolIncludes(protocol, name) == \E i \in 1..Len(protocol) : protocol[i].c = name

\* ----------------------------------------------------------------- inputs
\* Payloads as decoded by JSON.parse: an object gives its six fields (Undef for
\* a key that is absent); json says what JSON.parse made of the bytes.
Obj(d, u, m, la, lo, ts) ==
    [json |-> "object", dID |-> d, uID |-> u, msg |-> m, lat |-> la, lon |-> lo, dTS |-> ts]

\* bytes that are not JSON (JSON.parse throws), JSON null, a JSON number
NotJson == [json |-> "invalid", dID |-> Undef, uID |-> Undef, msg |-> Undef,
            lat |-> Undef, lon |-> Undef, dTS |-> Undef]
JsonNull == [NotJson EXCEPT !.json = "null"]
JsonPrimitive == [NotJson EXCEPT !.json = "primitive"]

ValidGPS ==
    { Obj(Str(d), Undef, Undef, Num(la), Num(77), Num(ts)) :
        d \in {"d1", "d2"}, la \in {13, 14}, ts \in {5, 9} }

OddGPS ==
    { Obj(Undef, Undef, Undef, Num(13), Num(77), Num(9)),      \* no dID
      Obj(Str("d1"), Undef, Undef, Undef, Num(77), Num(9)),    \* no lat
      Obj(Str("d1"), Undef, Undef, Num(13), Undef, Num(9)),    \* no lon
      Obj(Str("d1"), Undef, Undef, Str("x"), Num(77), Num(9)), \* lat a string
      Obj(Str("d1"), Undef, Undef, Null, Num(77), Num(9)),     \* lat null
      Obj(Str("d1"), Undef, Undef, Num(91), Num(77), Num(9)),  \* lat out of range
      Obj(Str("d1"), Undef, Undef, Num(13), Num(181), Num(9)), \* lon out of range
      Obj(Str("d1"), Undef, Undef, Num(0), Num(0), Num(9)),    \* lat = lon = 0
      Obj(Str("d1"), Undef, Undef, Num(14), Num(77), Undef),   \* no dTS
      Obj(Str("d2"), Undef, Undef, Num(0), Num(77), Undef),    \* lat = 0, no dTS
      Obj(Str("d1"), Undef, Undef, Num(13), Num(77), Num(0)) } \* dTS = 0

ValidRFID ==
    { Obj(Str("d1"), Str(u), m, Num(13), Num(77), Num(5)) :
        u \in {"t1", "t2"}, m \in {Undef, Str("hi")} }

OddRFID ==
    { Obj(Str("d1"), Undef, Undef, Num(13), Num(77), Num(5)),       \* no uID
      Obj(Undef, Str("t1"), Undef, Num(13), Num(77), Num(5)),       \* no dID
      Obj(Str("d1"), Str("t1"), Undef, Undef, Num(77), Num(5)),     \* no lat
      Obj(Str("d1"), Str("t1"), Undef, Str("x"), Num(77), Num(5)),  \* lat a string
      Obj(Str("d1"), Str("t1"), Undef, Num(13), Num(181), Num(5)),  \* lon out of range
      Obj(Str("d1"), Str("t1"), Str(""), Num(0), Num(77), Num(5)),  \* msg "", lat 0
      Obj(Str("d1"), Str("t1"), Undef, Num(13), Num(77), Undef),    \* no dTS
      Obj(Str("d2"), Str("t1"), Undef, Num(13), Num(77), Num(0)) }  \* dTS = 0

Payloads == ValidGPS \cup OddGPS \cup ValidRFID \cup OddRFID
            \cup {NotJson, JsonNull, JsonPrimitive}

\* the payloads of the specification of the whole system
FewPayloads ==
    { Obj(Str("d1"), Undef, Undef, Num(13), Num(77), Num(9)),
      Obj(Str("d1"), Undef, Undef, Num(14), Num(77), Num(5)),
      Obj(Str("d1"), Undef, Undef, Num(14), Num(77), Undef),
      Obj(Str("d2"), Undef, Undef, Num(13), Num(77), Num(9)),
      Obj(Str("d1"), Str("t1"), Undef, Num(13), Num(77), Num(5)),
      NotJson }

OnePayload == { Obj(Str("d1"), Undef, Undef, Num(13), Num(77), Num(9)) }

Topics == {"devices/gps", "devices/rfid", "other"}
Sockets == {"s1", "s2"}
ClientIds == {"c1", "c2"}
Handles == 1..MaxClients
\* Date.now() in seconds, as read by the handlers
NowValues == {20}

\* the two backends
Impls == {"server.js", "README"}

VARIABLES
    impl,             \* which backend runs
    devices,          \* state.devices: Map dID -> device, as the sequence of its values in insertion order
    rfidScans,        \* state.rfidScans, newest first
    sockets,          \* the viewer sessions connected to io
    inbox,            \* per viewer: the events emitted to it since it connected, in order
    clients,          \* the MQTT client objects created by mqtt.connect, by handle
    mqttConnections,  \* server.js state.mqttConnections: clientId -> entry
    mqttClient,       \* README state.mqttClient: a handle, or 0 for null
    mqttConnected,    \* README state.mqttConnected
    gpsTopic,         \* README state.gpsTopic ("" for null)
    rfidTopic,        \* README state.rfidTopic ("" for null)
    running,          \* the process is alive
    scanEvents,       \* history: the payloads of the valid scan events delivered, oldest first
    gpsEvents,        \* history: Map dID -> payload of the last valid GPS event delivered
    allValid,         \* history: every bus message so far was a valid GPS or scan event
    nmsgs,            \* history: bus messages delivered
    nevents,          \* history: MQTT error/close/offline/disconnect events delivered
    last              \* history: the handler that ran last and how it ended

vars == <<impl, devices, rfidScans, sockets, inbox, clients, mqttConnections,
          mqttClient, mqttConnected, gpsTopic, rfidTopic, running, scanEvents,
          gpsEvents, allValid, nmsgs, nevents, last>>

\* ------------------------------------------------------------ the JS Map
\* A Map is the sequence of its entries [k, v] in insertion order.
MapHas(m, k) == \E i \in 1..Len(m) : m[i].k = k
MapIndex(m, k) == CHOOSE i \in 1..Len(m) : m[i].k = k
MapGet(m, k) == m[MapIndex(m, k)].v
\* a set() that starts a new map with the one entry
MapSetAlone(m, k, v) == << [k |-> k, v |-> v] >>
\* set: an existing key keeps its place, a new key goes last
MapSet(m, k, v) ==
    IF MapHas(m, k) THEN [m EXCEPT ![MapIndex(m, k)] = [k |-> k, v |-> v]]
    ELSE Append(m, [k |-> k, v |-> v])
\* delete
MapDelete(m, k) == SelectSeq(m, LAMBDA e : e.k # k)
MapKeys(m) == { m[i].k : i \in 1..Len(m) }
\* Array.from(m.values())
MapValues(m) == [i \in 1..Len(m) |-> m[i].v]

\* ------------------------------------------------- src/server.js handlers
\* An event given to socket.emit / io.emit
Ev(name, data) == [name |-> name, data |-> data]

\* What a handler did: the registry after it, the events it gave to io.emit (in
\* order), and how it ended:
\*   "rejected"      the validation returned early
\*   "threw"         an exception before any effect
\*   "partial"       an exception after a stored record was changed in place
\*   "applied"       ran to its end
\*   "applied_threw" state changed and event emitted, then the log line threw
\*   "ignored"       the topic is neither the GPS nor the RFID topic
Done(devs, scans, out, res) == [devs |-> devs, scans |-> scans, out |-> out, res |-> res]

\* handleGPSMessage(payload, socket), src/server.js:181-212
handleGPSMessage(devs, scans, p) ==
    IF p.json = "null" THEN Done(devs, scans, <<>>, "threw")   \* destructuring null
    ELSE IF Falsy(p.dID) \/ p.lat = Undef \/ p.lon = Undef
    THEN Done(devs, scans, <<>>, "rejected")
    ELSE
      LET known == MapHas(devs, p.dID)
          \* device = state.devices.get(dID) || {}; four fields assigned
          touched == IF known
                     THEN [MapGet(devs, p.dID) EXCEPT !.deviceId = p.dID, !.latitude = p.lat,
                                                       !.longitude = p.lon, !.timestamp = p.dTS]
                     ELSE [deviceId |-> p.dID, latitude |-> p.lat, longitude |-> p.lon,
                           timestamp |-> p.dTS, lastUpdate |-> Undef, raw |-> p]
          ms == TimesThousand(p.dTS)
          device == [touched EXCEPT !.lastUpdate = ToISOString(ms), !.raw = p]
      IN IF IsoThrows(ms)
         THEN \* the stored object was already written to; a new one is dropped
              IF known THEN Done(MapSet(devs, p.dID, touched), scans, <<>>, "partial")
              ELSE Done(devs, scans, <<>>, "threw")
         ELSE Done(MapSet(devs, p.dID, device), scans,
                   << Ev("gps_update",
                         [deviceId |-> p.dID, latitude |-> p.lat, longitude |-> p.lon,
                          timestamp |-> p.dTS, lastUpdate |-> device.lastUpdate,
                          rawPayload |-> p]) >>,
                   IF ToFixedThrows(p.lat) \/ ToFixedThrows(p.lon)
                   THEN "applied_threw" ELSE "applied")

\* state.maxRFIDHistory, src/server.js:33 (MAX_RFID_HISTORY, src/README.md:365)
maxRFIDHistory == 100

\* a history that is never trimmed: unshift without the pop
AddToHistoryNoPop(scans, scan) == <<scan>> \o scans

\* rfidScans.unshift(scan); if (rfidScans.length > max) rfidScans.pop()
AddToHistory(scans, scan) ==
    LET longer == <<scan>> \o scans
    IN IF Len(longer) > maxRFIDHistory THEN SubSeq(longer, 1, Len(longer) - 1) ELSE longer

\* handleRFIDMessage(payload, socket), src/server.js:218-248
handleRFIDMessage(devs, scans, p) ==
    IF p.json = "null" THEN Done(devs, scans, <<>>, "threw")
    ELSE IF Falsy(p.dID) \/ Falsy(p.uID) \/ p.lat = Undef \/ p.lon = Undef
    THEN Done(devs, scans, <<>>, "rejected")
    ELSE
      LET ms == TimesThousand(p.dTS)
          scanData == [deviceId |-> p.dID, tagUID |-> p.uID,
                       message |-> OrElse(p.msg, Str("N/A")), latitude |-> p.lat,
                       longitude |-> p.lon, timestamp |-> p.dTS,
                       scannedAt |-> ToISOString(ms), rawPayload |-> p]
      IN IF IsoThrows(ms) THEN Done(devs, scans, <<>>, "threw")
         ELSE Done(devs, AddToHistory(scans, scanData), << Ev("rfid_scan", scanData) >>,
                   IF ToFixedThrows(p.lat) \/ ToFixedThrows(p.lon)
                   THEN "applied_threw" ELSE "applied")

\* a dispatch that looks at the RFID topic first
onMessageRFIDFirst(devs, scans, gTopic, rTopic, topic, p) ==
    IF p.json = "invalid" THEN Done(devs, scans, <<>>, "threw")
    ELSE IF topic = rTopic THEN handleRFIDMessage(devs, scans, p)
    ELSE IF topic = gTopic THEN handleGPSMessage(devs, scans, p)
    ELSE Done(devs, scans, <<>>, "ignored")

\* a dispatch that also moves the device of a scan to where it was scanned
onMessageScanMovesDevice(devs, scans, gTopic, rTopic, topic, p) ==
    IF p.json = "invalid" THEN Done(devs, scans, <<>>, "threw")
    ELSE IF topic = gTopic THEN handleGPSMessage(devs, scans, p)
    ELSE IF topic = rTopic
    THEN handleRFIDMessage(handleGPSMessage(devs, scans, p).devs, scans, p)
    ELSE Done(devs, scans, <<>>, "ignored")

\* a dispatch that takes every topic but the GPS topic for the RFID topic
onMessageElseRFID(devs, scans, gTopic, rTopic, topic, p) ==
    IF p.json = "invalid" THEN Done(devs, scans, <<>>, "threw")
    ELSE IF topic = gTopic THEN handleGPSMessage(devs, scans, p)
    ELSE handleRFIDMessage(devs, scans, p)

\* mqttClient.on('message', ...), src/server.js:123-136: the try/catch around
\* JSON.parse and the dispatch on the topics of the connect request
onMessage(devs, scans, gTopic, rTopic, topic, p) ==
    IF p.json = "invalid" THEN Done(devs, scans, <<>>, "threw")
    ELSE IF topic = gTopic THEN handleGPSMessage(devs, scans, p)
    ELSE IF topic = rTopic THEN handleRFIDMessage(devs, scans, p)
    ELSE Done(devs, scans, <<>>, "ignored")

\* ------------------------------------------ src/README.md backend handlers
\* payload.dTS || Math.floor(Date.now() / 1000)
TimestampOrNow(p, now) == OrElse(p.dTS, Num(now))

\* DashboardState.addDevice, src/README.md:378-386: a new record replaces the old
addDevice(devs, deviceId, lat, lon, timestamp) ==
    MapSet(devs, deviceId,
           [deviceId |-> deviceId, latitude |-> lat, longitude |-> lon,
            timestamp |-> timestamp,
            lastUpdate |-> ToLocaleTimeString(TimesThousand(timestamp))])

\* handleGPSMessage(payload), src/README.md:469-495 (its own try/catch)
readmeHandleGPS(devs, scans, p, now) ==
    IF p.json = "null" THEN Done(devs, scans, <<>>, "threw")   \* payload.dID of null
    ELSE IF Falsy(p.dID) \/ p.lat = Undef \/ p.lon = Undef
    THEN Done(devs, scans, <<>>, "rejected")
    ELSE LET timestamp == TimestampOrNow(p, now)
         IN Done(addDevice(devs, p.dID, p.lat, p.lon, timestamp), scans,
                 << Ev("gps_update",
                       [deviceId |-> p.dID, latitude |-> p.lat, longitude |-> p.lon,
                        timestamp |-> timestamp,
                        lastUpdate |-> ToLocaleTimeString(TimesThousand(timestamp))]) >>,
                 IF ToFixedThrows(p.lat) \/ ToFixedThrows(p.lon)
                 THEN "applied_threw" ELSE "applied")

\* handleRFIDMessage(payload) with DashboardState.addRFIDScan, src/README.md:388-403, 497-519
readmeHandleRFID(devs, scans, p, now) ==
    IF p.json = "null" THEN Done(devs, scans, <<>>, "threw")
    ELSE IF Falsy(p.dID) \/ Falsy(p.uID) \/ p.lat = Undef \/ p.lon = Undef
    THEN Done(devs, scans, <<>>, "rejected")
    ELSE LET timestamp == TimestampOrNow(p, now)
             scan == [deviceId |-> p.dID, tagUID |-> p.uID,
                      message |-> OrElse(p.msg, Str("N/A")), latitude |-> p.lat,
                      longitude |-> p.lon, timestamp |-> timestamp,
                      scannedAt |-> ToLocaleTimeString(TimesThousand(timestamp))]
         IN Done(devs, AddToHistory(scans, scan), << Ev("rfid_scan", scan) >>,
                 IF ToFixedThrows(p.lat) \/ ToFixedThrows(p.lon)
                 THEN "applied_threw" ELSE "applied")

\* onMqttMessage(topic, message), src/README.md:449-462: the topics are the
\* global state.gpsTopic / state.rfidTopic ("" stands for null)
readmeOnMessage(devs, scans, gTopic, rTopic, topic, p, now) ==
    IF p.json = "invalid" THEN Done(devs, scans, <<>>, "threw")
    ELSE IF gTopic # "" /\ topic = gTopic THEN readmeHandleGPS(devs, scans, p, now)
    ELSE IF rTopic # "" /\ topic = rTopic THEN readmeHandleRFID(devs, scans, p, now)
    ELSE Done(devs, scans, <<>>, "ignored")

registry == <<devices, rfidScans>>
readme == <<mqttClient, mqttConnected, gpsTopic, rfidTopic>>
history == <<scanEvents, gpsEvents, allValid, nmsgs, nevents>>

\* --------------------------------------------------- what the spec calls valid
\* (used by the history variables only, never by the handlers)
InRange(v, bound) == v.t = "number" /\ v.n >= -bound /\ v.n <= bound
IsValidGPSEvent(p) ==
    /\ p.json = "object"
    /\ p.dID.t = "string" /\ p.dID.s # ""
    /\ InRange(p.lat, 90) /\ InRange(p.lon, 180)
    /\ p.dTS.t \in {"undefined", "number"}
IsValidScanEvent(p) == IsValidGPSEvent(p) /\ p.uID.t = "string" /\ p.uID.s # ""

\* ------------------------------------------------------------- the viewers
\* an emit that puts the events in front of those a viewer already has
EmitAllInFront(inb, socks, evs) == [s \in Sockets |-> IF s \in socks THEN evs \o inb[s] ELSE inb[s]]

\* io.emit(...): every connected socket gets the events, in order
EmitAll(inb, socks, evs) == [s \in Sockets |-> IF s \in socks THEN inb[s] \o evs ELSE inb[s]]
\* socket.emit(...) on the socket of one viewer (nothing once it is gone)
EmitTo(inb, socks, to, evs) == [s \in Sockets |-> IF s = to /\ s \in socks THEN inb[s] \o evs ELSE inb[s]]

Status(status) == Ev("mqtt_status", [status |-> status])

\* ------------------------------------------------------- MQTT client objects
\* status: "none" (not created), "connecting", "connected", "reconnecting" (closed,
\* the reconnect timer of reconnectPeriod: 5000 runs), "ending" (end() called),
\* "ended".  sub: the state of the subscription issued on it.
NoClient == [status |-> "none", owner |-> "", clientId |-> "", gTopic |-> "", rTopic |-> "",
             sub |-> "none", brokerUrl |-> <<>>, url |-> <<>>]
Live(c) == c.status \in {"connecting", "connected", "reconnecting"}
FreeHandles == { h \in Handles : clients[h].status = "none" }
NewHandle == CHOOSE h \in FreeHandles : \A g \in FreeHandles : h <= g
\* client.end()
End(cs, h) == [cs EXCEPT ![h].status = "ending"]

\* mqtt.connect(url, ...) of the mqtt package throws on a URL without a protocol
MqttConnectThrows(url) == ~Includes(url.chars, SchemeSep)

\* the broker URLs of the connect requests: ws://broker:8083, and broker
WsBroker == << Word("ws"), Colon, Slash, Slash, Word("broker"), Colon, Digits(8083) >>
BareBroker == << Word("broker") >>

\* the config objects of connect_mqtt (server.js) and the data objects (README)
Configs == [clientId : ClientIds, brokerUrl : {Text(WsBroker), Text(BareBroker)},
            gpsTopic : {"devices/gps"}, rfidTopic : {"devices/rfid"}]
\* a connect_mqtt event emitted without an argument: config is undefined
NoConfig == [missing |-> TRUE]
OneConfig == { c \in Configs : c.clientId = "c1" /\ c.brokerUrl = Text(WsBroker) }
ReadmeData == [broker : {Text(WsBroker), Undef},
               gpsTopic : {"devices/gps"}, rfidTopic : {"devices/rfid"}]
OneData == { d \in ReadmeData : d.broker # Undef }

Init ==
    /\ impl \in Impls
    /\ devices = <<>>
    /\ rfidScans = <<>>
    /\ sockets = {}
    /\ inbox = [s \in Sockets |-> <<>>]
    /\ clients = [h \in Handles |-> NoClient]
    /\ mqttConnections = <<>>
    /\ mqttClient = 0
    /\ mqttConnected = FALSE
    /\ gpsTopic = ""
    /\ rfidTopic = ""
    /\ running = TRUE
    /\ scanEvents = <<>>
    /\ gpsEvents = <<>>
    /\ allValid = TRUE
    /\ nmsgs = 0
    /\ nevents = 0
    /\ last = [op |-> "init", res |-> ""]

Server == running /\ impl = "server.js"
Readme == running /\ impl = "README"
Created == { h \in Handles : clients[h].status # "none" }

\* ----------------------------------------------------- src/server.js actions
\* io.on('connection'), src/server.js:86-94
ViewerConnect(s) ==
    /\ Server /\ s \notin sockets
    /\ sockets' = sockets \cup {s}
    /\ \E now \in NowValues :
         inbox' = [inbox EXCEPT ![s] =
                     << Ev("initial_state",
                           [devices |-> MapValues(devices), rfidScans |-> rfidScans,
                            timestamp |-> ToISOString(Num(now * 1000))]) >>]
    /\ last' = [op |-> "viewer_connect", res |-> ""]
    /\ UNCHANGED <<impl, registry, clients, mqttConnections, readme, running, history>>

\* a disconnect handler that ends the connections the viewer created
ViewerDisconnectEndsClients(s) ==
    /\ running /\ s \in sockets
    /\ sockets' = sockets \ {s}
    /\ inbox' = [inbox EXCEPT ![s] = <<>>]
    /\ clients' = [h \in Handles |->
                     IF clients[h].owner = s
                     THEN [clients[h] EXCEPT !.owner = "gone",
                                             !.status = IF Live(clients[h]) THEN "ending" ELSE @]
                     ELSE clients[h]]
    /\ mqttConnections' = SelectSeq(mqttConnections, LAMBDA e : clients[e.v.client].owner # s)
    /\ last' = [op |-> "viewer_disconnect", res |-> ""]
    /\ UNCHANGED <<impl, registry, readme, running, history>>

\* socket.on('disconnect'), src/server.js:170-172 (src/README.md:655-657): the
\* handler logs; the socket is gone, so socket.emit of the handlers that closed
\* over it reaches nobody any more
ViewerDisconnect(s) ==
    /\ running /\ s \in sockets
    /\ sockets' = sockets \ {s}
    /\ inbox' = [inbox EXCEPT ![s] = <<>>]
    /\ clients' = [h \in Handles |->
                     IF clients[h].owner = s THEN [clients[h] EXCEPT !.owner = "gone"]
                     ELSE clients[h]]
    /\ last' = [op |-> "viewer_disconnect", res |-> ""]
    /\ UNCHANGED <<impl, registry, mqttConnections, readme, running, history>>

\* a connect_mqtt that starts the new connection from an empty registry
ConnectMqttResets(s, cfg, maxClients) ==
    /\ Server /\ s \in sockets
    /\ cfg # NoConfig
    /\ ~MqttConnectThrows(cfg.brokerUrl)
    /\ Cardinality(Created) < maxClients
    /\ clients' = [clients EXCEPT ![NewHandle] =
                     [status |-> "connecting", owner |-> s, clientId |-> cfg.clientId,
                      gTopic |-> cfg.gpsTopic, rTopic |-> cfg.rfidTopic, sub |-> "none",
                              brokerUrl |-> cfg.brokerUrl.chars, url |-> cfg.brokerUrl.chars]]
    /\ mqttConnections' = MapSet(mqttConnections, cfg.clientId,
                                 [client |-> NewHandle, brokerUrl |-> cfg.brokerUrl,
                                  gpsTopic |-> cfg.gpsTopic, rfidTopic |-> cfg.rfidTopic])
    /\ devices' = <<>>
    /\ rfidScans' = <<>>
    /\ last' = [op |-> "connect_mqtt", res |-> "created"]
    /\ UNCHANGED <<impl, sockets, inbox, readme, running, history>>

\* socket.on('connect_mqtt'), src/server.js:97-167
ConnectMqtt(s, cfg, maxClients) ==
    /\ Server /\ s \in sockets
    /\ IF cfg = NoConfig
       THEN \* line 98, before the try: destructuring undefined throws out of the handler
            /\ running' = FALSE
            /\ last' = [op |-> "connect_mqtt", res |-> "uncaught"]
            /\ UNCHANGED <<clients, mqttConnections, inbox, nevents>>
       ELSE IF MqttConnectThrows(cfg.brokerUrl)
       THEN /\ nevents < MaxBusEvents
            /\ nevents' = nevents + 1
            /\ inbox' = EmitTo(inbox, sockets, s, << Ev("mqtt_error", [error |-> "Missing protocol"]) >>)
            /\ last' = [op |-> "connect_mqtt", res |-> "error"]
            /\ UNCHANGED <<clients, mqttConnections, running>>
       ELSE /\ Cardinality(Created) < maxClients
            /\ clients' = [clients EXCEPT ![NewHandle] =
                             [status |-> "connecting", owner |-> s, clientId |-> cfg.clientId,
                              gTopic |-> cfg.gpsTopic, rTopic |-> cfg.rfidTopic, sub |-> "none",
                              brokerUrl |-> cfg.brokerUrl.chars, url |-> cfg.brokerUrl.chars]]
            /\ mqttConnections' = MapSet(mqttConnections, cfg.clientId,
                                         [client |-> NewHandle, brokerUrl |-> cfg.brokerUrl,
                                          gpsTopic |-> cfg.gpsTopic, rfidTopic |-> cfg.rfidTopic])
            /\ last' = [op |-> "connect_mqtt", res |-> "created"]
            /\ UNCHANGED <<inbox, nevents, running>>
    /\ UNCHANGED <<impl, registry, sockets, readme, scanEvents, gpsEvents, allValid, nmsgs>>

\* mqttClient.on('connect'), src/server.js:110-112: subscribe is issued
ClientConnect(h) ==
    /\ Server /\ clients[h].status \in {"connecting", "reconnecting"}
    /\ clients' = [clients EXCEPT ![h].status = "connected", ![h].sub = "pending"]
    /\ last' = [op |-> "mqtt_connect", res |-> ""]
    /\ UNCHANGED <<impl, registry, sockets, inbox, mqttConnections, readme, running, history>>

\* the subscribe callback, src/server.js:112-120
SubscribeCallback(h, err) ==
    /\ Server /\ clients[h].status = "connected" /\ clients[h].sub = "pending"
    /\ clients' = [clients EXCEPT ![h].sub = IF err THEN "failed" ELSE "ok"]
    /\ inbox' = IF err THEN inbox
                ELSE EmitAll(EmitTo(inbox, sockets, clients[h].owner,
                                    << Ev("mqtt_connected", [success |-> TRUE]) >>),
                             sockets, << Status("connected") >>)
    /\ last' = [op |-> "subscribe_callback", res |-> IF err THEN "failed" ELSE "ok"]
    /\ UNCHANGED <<impl, registry, sockets, mqttConnections, readme, running, history>>

\* a handler ended by throwing
Thrown(res) == res \in {"threw", "partial", "applied_threw"}
\* a message handler without the try/catch: what is thrown leaves the handler
NoTryCatch(res) == IF Thrown(res) THEN "uncaught" ELSE "returned"

\* try { ... } catch (error) { console.error(...) } of mqttClient.on('message'),
\* src/server.js:124-135 (onMqttMessage, src/README.md:450-461): what the
\* handlers throw ends in the catch block.  An exception that leaves an event
\* handler is an uncaught exception: process.exit(1), src/server.js:256-259.
TryCatch(res) == IF Thrown(res) THEN "caught" ELSE "returned"

\* the history variables after a message on `topic` for a connection with topics g, r
Recorded(g, r, topic, p) ==
    /\ nmsgs' = nmsgs + 1
    /\ gpsEvents' = IF topic = g /\ IsValidGPSEvent(p) THEN MapSet(gpsEvents, p.dID, p)
                    ELSE gpsEvents
    /\ scanEvents' = IF topic # g /\ topic = r /\ IsValidScanEvent(p) THEN Append(scanEvents, p)
                     ELSE scanEvents
    /\ allValid' = (allValid /\ IF topic = g THEN IsValidGPSEvent(p)
                                ELSE IF topic = r THEN IsValidScanEvent(p) ELSE TRUE)

\* mqttClient.on('message'), src/server.js:123-136, for one message
Deliver(h, topic, p) ==
    /\ Server /\ clients[h].status = "connected" /\ clients[h].sub = "ok"
    /\ LET r == onMessage(devices, rfidScans, clients[h].gTopic, clients[h].rTopic, topic, p)
       IN /\ devices' = r.devs
          /\ rfidScans' = r.scans
          /\ inbox' = EmitAll(inbox, sockets, r.out)
          /\ last' = [op |-> "message", res |-> r.res]
          /\ running' = (TryCatch(r.res) # "uncaught")
    /\ Recorded(clients[h].gTopic, clients[h].rTopic, topic, p)
    /\ UNCHANGED <<impl, sockets, clients, mqttConnections, readme, nevents>>

ClientMessage(h, P, maxMsgs) ==
    /\ nmsgs < maxMsgs
    /\ \E topic \in Topics, p \in P : Deliver(h, topic, p)

\* mqttClient.on('error'), src/server.js:138-142
ClientError(h) ==
    /\ Server /\ Live(clients[h]) /\ nevents < MaxBusEvents
    /\ nevents' = nevents + 1
    /\ inbox' = EmitAll(EmitTo(inbox, sockets, clients[h].owner,
                               << Ev("mqtt_error", [error |-> "error"]) >>),
                        sockets, << Ev("mqtt_status", [status |-> "error", error |-> "error"]) >>)
    /\ last' = [op |-> "mqtt_error", res |-> ""]
    /\ UNCHANGED <<impl, registry, sockets, clients, mqttConnections, readme, running,
                   scanEvents, gpsEvents, allValid, nmsgs>>

\* mqttClient.on('offline'), src/server.js:144-147: the event follows the close
\* of a connection that dropped
ClientOffline(h) ==
    /\ Server /\ clients[h].status = "reconnecting" /\ nevents <= MaxBusEvents
    /\ nevents' = nevents + 1
    /\ inbox' = EmitAll(inbox, sockets, << Status("offline") >>)
    /\ last' = [op |-> "mqtt_offline", res |-> ""]
    /\ UNCHANGED <<impl, registry, sockets, clients, mqttConnections, readme, running,
                   scanEvents, gpsEvents, allValid, nmsgs>>

\* mqttClient.on('close'), src/server.js:149-152: the connection dropped (the
\* client will reconnect) or end() completed
ClientClose(h) ==
    /\ Server /\ clients[h].status \in {"connecting", "connected", "ending"}
    /\ clients[h].status = "ending" \/ nevents < MaxBusEvents
    /\ nevents' = IF clients[h].status = "ending" THEN nevents ELSE nevents + 1
    /\ clients' = [clients EXCEPT ![h].status = IF @ = "ending" THEN "ended" ELSE "reconnecting",
                                  ![h].sub = "none"]
    /\ mqttConnections' = MapDelete(mqttConnections, clients[h].clientId)
    /\ last' = [op |-> "mqtt_close", res |-> ""]
    /\ UNCHANGED <<impl, registry, sockets, inbox, readme, running,
                   scanEvents, gpsEvents, allValid, nmsgs>>

\* process.on('SIGTERM'), src/server.js:281-294: end() on the client of every
\* entry of state.mqttConnections, then server.close and process.exit(0); the
\* model follows the process up to the end of this handler
Sigterm ==
    /\ Server
    /\ clients' = [h \in Handles |->
                     IF \E i \in 1..Len(mqttConnections) : mqttConnections[i].v.client = h
                     THEN [clients[h] EXCEPT !.status = IF Live(clients[h]) THEN "ending" ELSE @]
                     ELSE clients[h]]
    /\ running' = FALSE
    /\ last' = [op |-> "sigterm", res |-> ""]
    /\ UNCHANGED <<impl, registry, sockets, inbox, mqttConnections, readme, history>>

\* responses that count the devices for every query
ResponseCountsDevices(q, now) ==
    CASE q = "devices" ->
           [success |-> TRUE, count |-> Len(devices),
            devices |-> [i \in 1..Len(devices) |->
                           [deviceId |-> devices[i].v.deviceId, latitude |-> devices[i].v.latitude,
                            longitude |-> devices[i].v.longitude, timestamp |-> devices[i].v.timestamp,
                            lastUpdate |-> devices[i].v.lastUpdate]]]
      [] q = "rfid-scans" -> [success |-> TRUE, count |-> Len(devices), scans |-> rfidScans]
      [] q = "stats" ->
           [success |-> TRUE, activeDevices |-> Len(devices), totalScans |-> Len(devices),
            mqttConnections |-> Len(mqttConnections), timestamp |-> ToISOString(Num(now * 1000))]

\* app.get('/api/devices'), app.get('/api/rfid-scans'), app.get('/api/stats'),
\* src/server.js:42-82: the response is built from the state, which is only read
Response(q, now) ==
    CASE q = "devices" ->
           [success |-> TRUE, count |-> Len(devices),
            devices |-> [i \in 1..Len(devices) |->
                           [deviceId |-> devices[i].v.deviceId, latitude |-> devices[i].v.latitude,
                            longitude |-> devices[i].v.longitude, timestamp |-> devices[i].v.timestamp,
                            lastUpdate |-> devices[i].v.lastUpdate]]]
      [] q = "rfid-scans" -> [success |-> TRUE, count |-> Len(rfidScans), scans |-> rfidScans]
      [] q = "stats" ->
           [success |-> TRUE, activeDevices |-> Len(devices), totalScans |-> Len(rfidScans),
            mqttConnections |-> Len(mqttConnections), timestamp |-> ToISOString(Num(now * 1000))]
\* a scans query that hands the scans out and empties the log
QueryTakes(q) ==
    /\ Server
    /\ \E now \in NowValues : last' = [op |-> "query", res |-> q, body |-> Response(q, now)]
    /\ rfidScans' = IF q = "rfid-scans" THEN <<>> ELSE rfidScans
    /\ UNCHANGED <<impl, devices, sockets, inbox, clients, mqttConnections, readme, running, history>>

Query(q) ==
    /\ Server
    /\ \E now \in NowValues : last' = [op |-> "query", res |-> q, body |-> Response(q, now)]
    /\ UNCHANGED <<impl, registry, sockets, inbox, clients, mqttConnections, readme, running, history>>

\* -------------------------------------------- src/README.md backend actions
\* app.get('/api/devices'), app.get('/api/rfid-scans'), src/README.md:607-619
readmeResponse(q) ==
    IF q = "devices" THEN [devices |-> MapValues(devices), count |-> Len(devices)]
    ELSE [scans |-> rfidScans, count |-> Len(rfidScans)]
readmeQuery(q) ==
    /\ Readme
    /\ last' = [op |-> "query", res |-> q, body |-> readmeResponse(q)]
    /\ UNCHANGED <<impl, registry, sockets, inbox, clients, mqttConnections, readme, running, history>>

\* io.on('connection'), src/README.md:622-630
readmeViewerConnect(s) ==
    /\ Readme /\ s \notin sockets
    /\ sockets' = sockets \cup {s}
    /\ inbox' = [inbox EXCEPT ![s] =
                   << Ev("initial_state",
                         [devices |-> MapValues(devices), rfidScans |-> rfidScans,
                          connected |-> mqttConnected]) >>]
    /\ last' = [op |-> "viewer_connect", res |-> ""]
    /\ UNCHANGED <<impl, registry, clients, mqttConnections, readme, running, history>>

\* a disconnectMQTT that ends the client and keeps the handle
disconnectMQTTKeepsHandle(st) ==
    IF st.mqttClient # 0
    THEN [clients |-> End(st.clients, st.mqttClient), mqttClient |-> st.mqttClient]
    ELSE st

\* disconnectMQTT(), src/README.md:592-598: the client is ended and forgotten;
\* state.mqttConnected is left as it is
disconnectMQTT(st) ==
    IF st.mqttClient # 0
    THEN [clients |-> End(st.clients, st.mqttClient), mqttClient |-> 0]
    ELSE st

\* connectMQTT throws (and catches) on a broker that is no string: brokerUrl.includes
ConnectMQTTThrows(broker) == broker.t # "string"

DefaultPort == 1883
DefaultTlsPort == 8883
\* "Parse broker URL", src/README.md:526-544: protocol, host and port
ParseBrokerUrl(brokerUrl) ==
    LET parts == Split(brokerUrl, SchemeSep)
        protocol == IF Includes(brokerUrl, SchemeSep) THEN parts[1] ELSE << Word("mqtt") >>
        hostPort == IF Includes(brokerUrl, SchemeSep) THEN parts[2] ELSE brokerUrl
        lastColonIndex == LastIndexOf(hostPort, Colon)
    IN [protocol |-> protocol,
        host |-> IF lastColonIndex > 0 THEN SubSeq(hostPort, 1, lastColonIndex - 1) ELSE hostPort,
        port |-> IF lastColonIndex > 0
                 THEN ParseInt(SubSeq(hostPort, lastColonIndex + 1, Len(hostPort)))
                 ELSE IF ProtocolIncludes(protocol, "mqtts") \/ ProtocolIncludes(protocol, "wss")
                      THEN Num(DefaultTlsPort) ELSE Num(DefaultPort)]
\* `${protocol}://${host}:${port}`, src/README.md:572: the URL given to mqtt.connect
ConnectUrl(brokerUrl) ==
    LET parsed == ParseBrokerUrl(brokerUrl)
    IN parsed.protocol \o SchemeSep \o parsed.host \o << Colon, NumberText(parsed.port) >>

\* socket.on('connect_mqtt') with connectMQTT, src/README.md:633-646, 522-590
readmeConnectMqtt(s, data, maxClients) ==
    /\ Readme /\ s \in sockets
    /\ LET before == [clients |-> clients, mqttClient |-> mqttClient]
           \* "Disconnect existing connection": only when connected
           st == IF mqttClient # 0 /\ mqttConnected THEN disconnectMQTT(before) ELSE before
       IN IF data = NoConfig
          THEN \* line 634: destructuring undefined throws out of the handler
               /\ running' = FALSE
               /\ last' = [op |-> "connect_mqtt", res |-> "uncaught"]
               /\ UNCHANGED <<clients, mqttClient, gpsTopic, rfidTopic, inbox, nevents>>
          ELSE IF ConnectMQTTThrows(data.broker)
          THEN /\ nevents < MaxBusEvents
               /\ nevents' = nevents + 1
               /\ clients' = st.clients
               /\ mqttClient' = st.mqttClient
               /\ inbox' = EmitAll(inbox, sockets,
                                   << Ev("mqtt_status", [status |-> "error", message |-> "TypeError"]) >>)
               /\ last' = [op |-> "connect_mqtt", res |-> "error"]
               /\ UNCHANGED <<gpsTopic, rfidTopic, running>>
          ELSE /\ Cardinality(Created) < maxClients
               /\ clients' = [st.clients EXCEPT ![NewHandle] =
                                [NoClient EXCEPT !.status = "connecting",
                                                 !.brokerUrl = data.broker.chars,
                                                 !.url = ConnectUrl(data.broker.chars)]]
               /\ mqttClient' = NewHandle
               /\ gpsTopic' = data.gpsTopic
               /\ rfidTopic' = data.rfidTopic
               /\ last' = [op |-> "connect_mqtt", res |-> "created"]
               /\ UNCHANGED <<inbox, nevents, running>>
    /\ UNCHANGED <<impl, registry, sockets, mqttConnections, mqttConnected,
                   scanEvents, gpsEvents, allValid, nmsgs>>

\* socket.on('disconnect_mqtt'), src/README.md:648-653 (a request may be
\* repeated once more after the last bus event)
readmeDisconnectMqtt(s) ==
    /\ Readme /\ s \in sockets /\ nevents <= MaxBusEvents
    /\ nevents' = nevents + 1
    /\ LET st == disconnectMQTT([clients |-> clients, mqttClient |-> mqttClient])
       IN /\ clients' = st.clients
          /\ mqttClient' = st.mqttClient
    /\ inbox' = EmitAll(inbox, sockets, << Status("disconnected") >>)
    /\ last' = [op |-> "disconnect_mqtt",
                res |-> IF mqttClient # 0 THEN "ended"
                        ELSE IF last.op = "disconnect_mqtt" THEN "again" ELSE "none held"]
    /\ UNCHANGED <<impl, registry, sockets, mqttConnections, mqttConnected, gpsTopic, rfidTopic,
                   running, scanEvents, gpsEvents, allValid, nmsgs>>

\* onMqttConnect, src/README.md:417-441, run for a 'connect' of client h: the
\* subscriptions are issued on state.mqttClient, whichever client that is; with
\* state.mqttClient null the call throws out of the event handler
readmeClientConnect(h) ==
    /\ Readme /\ clients[h].status \in {"connecting", "reconnecting"}
    /\ mqttConnected' = TRUE
    /\ inbox' = EmitAll(inbox, sockets,
                        << Ev("mqtt_status", [status |-> "connected",
                                              message |-> "Connected to MQTT broker"]) >>)
    /\ LET cs == [clients EXCEPT ![h].status = "connected"]
       IN IF gpsTopic = "" /\ rfidTopic = "" THEN clients' = cs /\ running' = running
          ELSE IF mqttClient = 0 THEN clients' = cs /\ running' = FALSE
          ELSE clients' = [cs EXCEPT ![mqttClient].sub = "pending"] /\ running' = running
    /\ last' = [op |-> "mqtt_connect", res |-> IF mqttClient = 0 THEN "threw" ELSE ""]
    /\ UNCHANGED <<impl, registry, sockets, mqttConnections, mqttClient, gpsTopic, rfidTopic, history>>

\* the subscribe callbacks, src/README.md:424-430, 433-439: they log
readmeSubscribeCallback(h, err) ==
    /\ Readme /\ clients[h].status = "connected" /\ clients[h].sub = "pending"
    /\ clients' = [clients EXCEPT ![h].sub = IF err THEN "failed" ELSE "ok"]
    /\ last' = [op |-> "subscribe_callback", res |-> IF err THEN "failed" ELSE "ok"]
    /\ UNCHANGED <<impl, registry, sockets, inbox, mqttConnections, readme, running, history>>

\* onMqttMessage, src/README.md:449-462, for one message
readmeDeliver(h, topic, p) ==
    /\ Readme /\ clients[h].status = "connected" /\ clients[h].sub = "ok"
    /\ \E now \in NowValues :
         LET r == readmeOnMessage(devices, rfidScans, gpsTopic, rfidTopic, topic, p, now)
         IN /\ devices' = r.devs
            /\ rfidScans' = r.scans
            /\ inbox' = EmitAll(inbox, sockets, r.out)
            /\ last' = [op |-> "message", res |-> r.res]
            /\ running' = (TryCatch(r.res) # "uncaught")
    /\ Recorded(gpsTopic, rfidTopic, topic, p)
    /\ UNCHANGED <<impl, sockets, clients, mqttConnections, readme, nevents>>

readmeClientMessage(h, P, maxMsgs) ==
    /\ nmsgs < maxMsgs
    /\ \E topic \in Topics, p \in P : readmeDeliver(h, topic, p)

\* onMqttError, src/README.md:464-467
readmeClientError(h) ==
    /\ Readme /\ Live(clients[h]) /\ nevents < MaxBusEvents
    /\ nevents' = nevents + 1
    /\ inbox' = EmitAll(inbox, sockets,
                        << Ev("mqtt_status", [status |-> "error", message |-> "error"]) >>)
    /\ last' = [op |-> "mqtt_error", res |-> ""]
    /\ UNCHANGED <<impl, registry, sockets, clients, mqttConnections, readme, running,
                   scanEvents, gpsEvents, allValid, nmsgs>>

\* onMqttDisconnect, src/README.md:443-447: the 'disconnect' event of the client
\* (the broker sent a DISCONNECT packet)
readmeClientDisconnect(h) ==
    /\ Readme /\ clients[h].status = "connected" /\ nevents < MaxBusEvents
    /\ nevents' = nevents + 1
    /\ mqttConnected' = FALSE
    /\ inbox' = EmitAll(inbox, sockets, << Status("disconnected") >>)
    /\ last' = [op |-> "mqtt_disconnect", res |-> ""]
    /\ UNCHANGED <<impl, registry, sockets, clients, mqttConnections, mqttClient, gpsTopic,
                   rfidTopic, running, scanEvents, gpsEvents, allValid, nmsgs>>

\* the connection of client h closes; src/README.md:575-578 registers no handler
\* for 'close', so only the client changes
readmeClientClose(h) ==
    /\ Readme /\ clients[h].status \in {"connecting", "connected", "ending"}
    /\ clients[h].status = "ending" \/ nevents < MaxBusEvents
    /\ nevents' = IF clients[h].status = "ending" THEN nevents ELSE nevents + 1
    /\ clients' = [clients EXCEPT ![h].status = IF @ = "ending" THEN "ended" ELSE "reconnecting",
                                  ![h].sub = "none"]
    /\ last' = [op |-> "mqtt_close", res |-> ""]
    /\ UNCHANGED <<impl, registry, sockets, inbox, mqttConnections, readme, running,
                   scanEvents, gpsEvents, allValid, nmsgs>>

\* ------------------------------------------------------------ specifications
\* The steps of both backends, grouped: for viewers S, connect requests C
\* (server.js) and D (README), payloads P, and the bounds given.
Joins(S) ==
    \/ \E s \in S : ViewerConnect(s)
    \/ \E s \in S : readmeViewerConnect(s)
Leaves(S) == \E s \in S : ViewerDisconnect(s)
Requests(S, C, D, maxClients) ==
    \/ \E s \in S, cfg \in C : ConnectMqtt(s, cfg, maxClients)
    \/ \E s \in S, data \in D : readmeConnectMqtt(s, data, maxClients)
    \/ \E s \in S : readmeDisconnectMqtt(s)
Connects(E) ==
    \/ \E h \in Handles : ClientConnect(h)
    \/ \E h \in Handles, err \in E : SubscribeCallback(h, err)
    \/ \E h \in Handles : readmeClientConnect(h)
    \/ \E h \in Handles, err \in E : readmeSubscribeCallback(h, err)
Messages(P, maxMsgs) ==
    \/ \E h \in Handles : ClientMessage(h, P, maxMsgs)
    \/ \E h \in Handles : readmeClientMessage(h, P, maxMsgs)
Faults ==
    \/ \E h \in Handles : ClientError(h)
    \/ \E h \in Handles : ClientOffline(h)
    \/ \E h \in Handles : ClientClose(h)
    \/ \E h \in Handles : readmeClientError(h)
    \/ \E h \in Handles : readmeClientDisconnect(h)
    \/ \E h \in Handles : readmeClientClose(h)

Queries ==
    \/ \E q \in {"devices", "rfid-scans", "stats"} : Query(q)
    \/ \E q \in {"devices", "rfid-scans"} : readmeQuery(q)

\* the whole system: two viewers, one bus connection, a few payloads
Next ==
    \/ Joins(Sockets) \/ Leaves(Sockets)
    \/ Requests(Sockets, Configs, ReadmeData, 1)
    \/ Connects(BOOLEAN) \/ Messages(FewPayloads, MaxMsgs) \/ Faults
Spec == Init /\ [][Next]_vars

\* message handling: one viewer, one bus connection, every payload
NextIngest ==
    \/ Joins({"s1"}) \/ Leaves({"s1"})
    \/ \E cfg \in OneConfig : ConnectMqtt("s1", cfg, 1)
    \/ \E data \in OneData : readmeConnectMqtt("s1", data, 1)
    \/ Connects({FALSE}) \/ Messages(Payloads, MaxIngest)
SpecIngest == Init /\ [][NextIngest]_vars

\* the viewers: two of them joining and leaving, queries, one bus connection
NextFanout ==
    \/ Joins(Sockets) \/ Leaves(Sockets) \/ Queries
    \/ \E s \in Sockets, cfg \in OneConfig : ConnectMqtt(s, cfg, 1)
    \/ \E s \in Sockets, data \in OneData : readmeConnectMqtt(s, data, 1)
    \/ \E s \in Sockets : readmeDisconnectMqtt(s)
    \/ Connects({FALSE}) \/ Messages(FewPayloads, MaxMsgs)
SpecFanout == Init /\ [][NextFanout]_vars

\* the bus connections: one viewer, several connect requests
NextBus ==
    \/ Joins({"s1"})
    \/ Requests({"s1"}, Configs \cup {NoConfig}, ReadmeData \cup {NoConfig}, MaxClients)
    \/ Connects(BOOLEAN) \/ Messages(OnePayload, 1) \/ Faults
SpecBus == Init /\ [][NextBus]_vars

\* The scan history filled past its size: the k-th scan event carries the tag
\* "tag_k" (the string "tag_" with the number k) and the timestamp k; one message
\* of a behaviour may lack its uID.
TagScan(k) == Obj(Str("d1"), [t |-> "string", n |-> k, s |-> "tag_"], Undef, Num(13), Num(77), Num(k))
HistoryPayloads ==
    LET k == Len(scanEvents) + 1
    IN {TagScan(k)} \cup IF nmsgs = Len(scanEvents) THEN {[TagScan(k) EXCEPT !.uID = Undef]} ELSE {}
HistoryScan(h) ==
    /\ Len(scanEvents) < maxRFIDHistory + MaxOverflow
    /\ \E p \in HistoryPayloads : Deliver(h, "devices/rfid", p) \/ readmeDeliver(h, "devices/rfid", p)

NextHistory ==
    \/ Joins({"s1"}) \/ Leaves({"s1"})
    \/ Requests({"s1"}, OneConfig, OneData, 1)
    \/ Connects({FALSE})
    \/ \E h \in Handles : HistoryScan(h)
SpecHistory == Init /\ [][NextHistory]_vars

\* the broker URLs: [scheme://]broker[:port][/path]
MakeUrl(scheme, port, path) ==
    (IF scheme = "" THEN <<>> ELSE << Word(scheme) >> \o SchemeSep)
    \o << Word("broker") >>
    \o (IF port = 0 THEN <<>> ELSE << Colon, Digits(port) >>)
    \o (IF path = "" THEN <<>> ELSE << Slash, Word(path) >>)
UrlInputs ==
    { MakeUrl(scheme, port, path) :
        scheme \in {"", "mqtt", "mqtts", "ws", "wss"}, port \in {0, 8083}, path \in {"", "mqtt"} }
UrlConfig(u) == [clientId |-> "c1", brokerUrl |-> Text(u),
                 gpsTopic |-> "devices/gps", rfidTopic |-> "devices/rfid"]
UrlData(u) == [broker |-> Text(u), gpsTopic |-> "devices/gps", rfidTopic |-> "devices/rfid"]

\* a connection whose GPS topic and RFID topic have the same name
SameTopicConfig == [clientId |-> "c1", brokerUrl |-> Text(WsBroker),
                    gpsTopic |-> "devices/gps", rfidTopic |-> "devices/gps"]
SameTopicData == [broker |-> Text(WsBroker), gpsTopic |-> "devices/gps", rfidTopic |-> "devices/gps"]
NextSameTopic ==
    \/ Joins({"s1"})
    \/ ConnectMqtt("s1", SameTopicConfig, 1)
    \/ readmeConnectMqtt("s1", SameTopicData, 1)
    \/ Connects({FALSE}) \/ Messages(Payloads, MaxIngest)
SpecSameTopic == Init /\ [][NextSameTopic]_vars

\* connect requests, bus connection events and the shutdown signal
NextShutdown ==
    \/ Joins({"s1"})
    \/ Requests({"s1"}, Configs, OneData, MaxClients)
    \/ Connects({FALSE}) \/ Faults
    \/ Sigterm
SpecShutdown == Init /\ [][NextShutdown]_vars

\* connect requests with every broker URL, by one viewer
NextUrl ==
    \/ Joins({"s1"})
    \/ \E u \in UrlInputs : ConnectMqtt("s1", UrlConfig(u), MaxClients)
    \/ \E u \in UrlInputs : readmeConnectMqtt("s1", UrlData(u), MaxClients)
SpecUrl == Init /\ [][NextUrl]_vars

\* ------------------------------------------------------------- properties
\* The registry as a viewer sees it
Snapshot == [devices |-> MapValues(devices), scans |-> rfidScans]

\* The state a viewer rebuilds from the events it was sent: initial_state sets
\* it, gps_update puts the device in the place of the one with its deviceId (or
\* last), rfid_scan goes first in the scans, which are cut to the history size;
\* status events carry no registry data.
AsDevice(data) ==
    IF "rawPayload" \in DOMAIN data
    THEN [deviceId |-> data.deviceId, latitude |-> data.latitude, longitude |-> data.longitude,
          timestamp |-> data.timestamp, lastUpdate |-> data.lastUpdate, raw |-> data.rawPayload]
    ELSE data
Upsert(devs, d) ==
    IF \E i \in 1..Len(devs) : devs[i].deviceId = d.deviceId
    THEN [i \in 1..Len(devs) |-> IF devs[i].deviceId = d.deviceId THEN d ELSE devs[i]]
    ELSE Append(devs, d)
ViewStep(view, e) ==
    CASE e.name = "initial_state" -> [devices |-> e.data.devices, scans |-> e.data.rfidScans]
      [] e.name = "gps_update" -> [view EXCEPT !.devices = Upsert(@, AsDevice(e.data))]
      [] e.name = "rfid_scan" ->
           [view EXCEPT !.scans = SubSeq(<<e.data>> \o @, 1,
                                         IF Len(@) < maxRFIDHistory THEN Len(@) + 1
                                         ELSE maxRFIDHistory)]
      [] OTHER -> view
RECURSIVE View(_)
View(evs) ==
    IF evs = <<>> THEN [devices |-> <<>>, scans |-> <<>>]
    ELSE ViewStep(View(SubSeq(evs, 1, Len(evs) - 1)), evs[Len(evs)])

\* the last n of the events, newest first
Newest(events, n) ==
    LET m == IF Len(events) < n THEN Len(events) ELSE n
    IN [i \in 1..m |-> events[Len(events) + 1 - i]]
\* the timestamp a record gets from its event: the dTS of the payload, the time
\* of receipt when the payload has none
EventTimestamp(p, t) ==
    IF p.dTS = Undef THEN t \in {Num(now) : now \in NowValues} ELSE t = p.dTS

\* a payload that is malformed on the topic: undecodable or not an object, no
\* dID, lat or lon absent or not a number, no uID on the RFID topic
Malformed(topic, p) ==
    \/ p.json # "object"
    \/ p.dID = Undef
    \/ p.lat.t # "number" \/ p.lon.t # "number"
    \/ (topic = "devices/rfid" /\ p.uID = Undef)
\* a payload with numeric coordinates outside [-90, 90] x [-180, 180]
OutOfRange(p) ==
    /\ p.json = "object" /\ p.lat.t = "number" /\ p.lon.t = "number"
    /\ (~InRange(p.lat, 90) \/ ~InRange(p.lon, 180))
\* the step is the delivery of payload p on the topic, to either backend
Delivery(topic, p) == \E h \in Handles : Deliver(h, topic, p) \/ readmeDeliver(h, topic, p)
DataTopics == {"devices/gps", "devices/rfid"}
LiveClients == { h \in Handles : Live(clients[h]) }

\* C1: in every reachable state, whatever messages, connect/disconnect requests
\* and viewer joins/leaves came before, the scan log holds at most H = 100 entries.
C1_ScanLogBounded == Len(rfidScans) <= maxRFIDHistory
\* more than H scan events were applied and the log is full
C1_Witness ==
    /\ Len(scanEvents) > maxRFIDHistory /\ nmsgs > Len(scanEvents)
    /\ Len(rfidScans) = maxRFIDHistory /\ last.op = "message"

\* C2: after N valid scan events the scan log holds the min(N, H) most recently
\* applied ones, newest first (same length, same tag, device and timestamp at
\* every index).
C2_LogIsNewestFirst ==
    allValid =>
        /\ Len(rfidScans) = Len(Newest(scanEvents, maxRFIDHistory))
        /\ \A i \in 1..Len(rfidScans) :
             LET p == Newest(scanEvents, maxRFIDHistory)[i]
             IN /\ rfidScans[i].tagUID = p.uID
                /\ rfidScans[i].deviceId = p.dID
                /\ EventTimestamp(p, rfidScans[i].timestamp)

\* C3: after any sequence of valid GPS events the registry holds one Device
\* record per distinct deviceId seen, with the latitude, longitude and timestamp
\* of the event that arrived last for that deviceId.
C3_LastWriteWins ==
    allValid =>
        /\ Len(devices) = Len(gpsEvents)
        /\ \A i \in 1..Len(gpsEvents) :
             /\ MapHas(devices, gpsEvents[i].k)
             /\ LET d == MapGet(devices, gpsEvents[i].k)
                    p == gpsEvents[i].v
                IN /\ d.latitude = p.lat
                   /\ d.longitude = p.lon
                   /\ EventTimestamp(p, d.timestamp)

\* C4: the delivery of a malformed payload changes neither the device count nor
\* the scan-log length, and nothing is broadcast for it.
C4_MalformedDropped ==
    [][\A topic \in DataTopics, p \in Payloads :
         Malformed(topic, p) /\ Delivery(topic, p) =>
            /\ Len(devices') = Len(devices)
            /\ Len(rfidScans') = Len(rfidScans)
            /\ inbox' = inbox]_vars

\* C5: the delivery of a payload whose latitude or longitude is out of range
\* creates or changes no Device record and adds no scan entry.
C5_OutOfRangeDropped ==
    [][\A topic \in DataTopics, p \in Payloads :
         OutOfRange(p) /\ Delivery(topic, p) => UNCHANGED registry]_vars

\* C6: a message whose handling is rejected or fails part-way leaves every
\* Device record and the scan log as they were before the message.
C6_AllOrNothing ==
    [][\A topic \in Topics, p \in Payloads :
         Delivery(topic, p) /\ last'.res \in {"rejected", "threw", "partial"}
            => UNCHANGED registry]_vars

\* C7: the state a connected viewer rebuilds from its snapshot and the events
\* sent to it afterwards equals the registry, in every reachable state.
C7_ViewEqualsRegistry == \A s \in sockets : View(inbox[s]) = Snapshot

\* C8: connect and disconnect requests, and the connects, reconnects, errors
\* and closes of the bus connections, leave the Device map and the scan log
\* unchanged.
C8_RegistryKept ==
    [][Requests(Sockets, Configs, ReadmeData, MaxClients) \/ Connects(BOOLEAN) \/ Faults
         => UNCHANGED registry]_vars
\* a second connection was just requested while the registry holds a device
C8_Witness ==
    /\ devices # <<>>
    /\ last.op = "connect_mqtt" /\ last.res = "created"
    /\ Cardinality(Created) >= 2

\* C9: in every reachable state at most one bus connection is live.
C9_OneLiveConnection == Cardinality(LiveClients) <= 1

\* C10: a disconnect request leaves no connection held, and a disconnect
\* request made while no connection is held changes neither the connection
\* handle, the client objects, the status, the topics nor the registry: a second
\* request in a row leaves the state the first one left.
C10_DisconnectIdempotent ==
    [][(\E s \in Sockets : readmeDisconnectMqtt(s)) =>
          /\ mqttClient' = 0
          /\ mqttClient = 0 =>
               UNCHANGED <<clients, mqttClient, mqttConnected, gpsTopic, rfidTopic,
                           devices, rfidScans>>]_vars
\* a disconnect request right after a disconnect request, with data in the registry
C10_Witness ==
    /\ last.op = "disconnect_mqtt" /\ last.res = "again"
    /\ devices # <<>> /\ Cardinality(Created) >= 1

\* C11: once a disconnect request has been handled no connection handle is held
\* and the stored status is disconnected (the connected flag is false).
C11_DisconnectedAfterRequest ==
    last.op = "disconnect_mqtt" => (mqttClient = 0 /\ ~mqttConnected)

\* C12: a connect request whose broker URL is malformed or missing (the connect
\* call throws on it) leaves the client objects, the connection held, the
\* status, the topics and the registry as they were before the request.
C12_RefusedConnectHasNoEffect ==
    [][( \/ \E s \in Sockets, cfg \in Configs :
              MqttConnectThrows(cfg.brokerUrl) /\ ConnectMqtt(s, cfg, MaxClients)
         \/ \E s \in Sockets, data \in ReadmeData :
              ConnectMQTTThrows(data.broker) /\ readmeConnectMqtt(s, data, MaxClients) )
         => UNCHANGED <<clients, mqttConnections, mqttClient, mqttConnected,
                        gpsTopic, rfidTopic, devices, rfidScans>>]_vars

\* the data events among the events a step adds for viewer s; the registry
\* after the step holds what event e carries
IsData(e) == e.name \in {"gps_update", "rfid_scan"}
Added(s) == SelectSeq(SubSeq(inbox'[s], Len(inbox[s]) + 1, Len(inbox'[s])), IsData)
AppliedBy(e) ==
    IF e.name = "gps_update"
    THEN \E i \in 1..Len(devices') : devices'[i].v = AsDevice(e.data)
    ELSE rfidScans' # <<>> /\ rfidScans'[1] = e.data

\* C13: every registered viewer receives the gps_update and rfid_scan events in
\* the order of their application: a step adds events only at the end of what a
\* viewer already has, at most one data event, the one the registry has just
\* taken, the same for every registered viewer, and a scan entered in the log
\* is always sent.
C13_BroadcastInApplicationOrder ==
    [][\A s \in sockets \cap sockets' :
         /\ Len(inbox[s]) <= Len(inbox'[s])
         /\ SubSeq(inbox'[s], 1, Len(inbox[s])) = inbox[s]
         /\ Len(Added(s)) <= 1
         /\ \A i \in 1..Len(Added(s)) : AppliedBy(Added(s)[i])
         /\ \A t \in sockets \cap sockets' : Added(t) = Added(s)
         /\ rfidScans' # rfidScans => Added(s) = << Ev("rfid_scan", rfidScans'[1]) >>]_vars
\* two viewers, each sent two data events, the second joined after the first event
C13_Witness ==
    /\ sockets = Sockets /\ last.op = "message"
    /\ \A s \in Sockets : SelectSeq(inbox[s], IsData) # <<>>
    /\ \E s, t \in Sockets : /\ Len(SelectSeq(inbox[s], IsData)) = 2
                             /\ Len(SelectSeq(inbox[t], IsData)) = 1

\* C14: viewer connects, viewer disconnects and the queries (devices, scans,
\* stats) leave the Device map and the scan log unchanged.
C14_ReadersKeepRegistry ==
    [][(Joins(Sockets) \/ Leaves(Sockets) \/ Queries) => UNCHANGED registry]_vars
\* the scans were just queried while the registry holds a device and a scan
C14_Witness ==
    /\ last.op = "query" /\ last.res = "rfid-scans"
    /\ devices # <<>> /\ rfidScans # <<>>

\* C15: no bus message, whatever its topic and payload, throws out of the
\* message handler or ends the process: after its delivery the process runs and
\* the connection, with its subscription and its handler, is as before, so the
\* next message is handled too.
C15_MessagesNeverFatal ==
    [][last'.op = "message" =>
         running' /\ UNCHANGED <<clients, mqttClient, gpsTopic, rfidTopic>>]_vars
\* a scan was applied right after the handling of another message threw
C15_Witness ==
    /\ running /\ last.op = "message" /\ last.res = "applied"
    /\ nmsgs = 2 /\ Len(scanEvents) = 2 /\ Len(rfidScans) = 1

\* C16: no sequence of connect requests, disconnect requests and bus connection
\* events (connect, error, offline, close) raises an unhandled exception or ends
\* the process: the process runs in every reachable state.
C16_RequestsNeverFatal == running

\* the step ends, for every registered viewer, with a status event of this status
Pushed(status) ==
    \A s \in sockets :
        /\ Len(inbox'[s]) > Len(inbox[s])
        /\ LET e == inbox'[s][Len(inbox'[s])]
           IN e.name = "mqtt_status" /\ e.data.status = status

\* C17: every transition of the bus connection status is pushed as a status
\* event to all registered viewers when it occurs: connected once the connect
\* handler has run (in server.js: once its subscribe call has come back), error
\* on a client error, disconnected on a client disconnect or a disconnect
\* request for a held connection.
C17_StatusTransitionsPushed ==
    [][/\ ( \/ \E h \in Handles, err \in BOOLEAN : SubscribeCallback(h, err)
            \/ \E h \in Handles : readmeClientConnect(h) ) => Pushed("connected")
       /\ (\E h \in Handles : ClientError(h) \/ readmeClientError(h)) => Pushed("error")
       /\ ( \/ \E h \in Handles : readmeClientDisconnect(h)
            \/ \E s \in Sockets : mqttClient # 0 /\ readmeDisconnectMqtt(s) )
             => Pushed("disconnected")]_vars

\* some bus connection is connected; the snapshot tells the viewer so
BusConnected == \E h \in Handles : clients[h].status = "connected"
ToldConnected(e) == "connected" \in DOMAIN e.data /\ e.data.connected

\* C18: the status a viewer is given when it joins tells a disconnected or
\* errored bus apart from a connected one: the snapshot of a viewer that has
\* just joined says the bus is connected exactly when a connection is connected.
C18_SnapshotTellsBusStatus ==
    last.op = "viewer_connect" =>
        \A s \in sockets :
            (Len(inbox[s]) = 1 /\ inbox[s][1].name = "initial_state")
                => (ToldConnected(inbox[s][1]) <=> BusConnected)

\* a payload with every required field of its topic, and no dTS
LacksTimestamp(topic, p) ==
    /\ p.dTS = Undef
    /\ IF topic = "devices/rfid" THEN IsValidScanEvent(p) ELSE IsValidGPSEvent(p)
ServerTime(t) == t \in { Num(now) : now \in NowValues }

\* C20: a GPS or RFID payload with all other required fields and no dTS is
\* accepted: it is applied to the registry and broadcast to every registered
\* viewer, with the current server time in seconds as its timestamp.
C20_TimestampDefaultsToNow ==
    [][\A topic \in DataTopics, p \in Payloads :
         LacksTimestamp(topic, p) /\ Delivery(topic, p) =>
            /\ IF topic = "devices/gps"
               THEN /\ MapHas(devices', p.dID)
                    /\ MapGet(devices', p.dID).latitude = p.lat
                    /\ MapGet(devices', p.dID).longitude = p.lon
                    /\ ServerTime(MapGet(devices', p.dID).timestamp)
               ELSE /\ Len(rfidScans') = Len(rfidScans) + 1
                    /\ rfidScans'[1].tagUID = p.uID
                    /\ ServerTime(rfidScans'[1].timestamp)
            /\ \A s \in sockets :
                 /\ Len(Added(s)) = 1
                 /\ AppliedBy(Added(s)[1])
                 /\ ServerTime(Added(s)[1].data.timestamp)]_vars

\* the Device record a devices query lists: the five fields of the record
Listed(d, e) ==
    /\ d.deviceId = e.deviceId /\ d.latitude = e.latitude /\ d.longitude = e.longitude
    /\ d.timestamp = e.timestamp /\ d.lastUpdate = e.lastUpdate

\* C21: query results agree with the registry: a devices query returns exactly
\* the current Device records, in the order of the map, with their count; a scans
\* query returns the scan log, newest first, with its count; a stats query
\* reports the number of devices and the length of the scan log.
C21_QueriesAgreeWithRegistry ==
    last.op = "query" =>
        CASE last.res = "devices" ->
               /\ last.body.count = Len(devices)
               /\ Len(last.body.devices) = Len(devices)
               /\ \A i \in 1..Len(devices) : Listed(last.body.devices[i], devices[i].v)
          [] last.res = "rfid-scans" ->
               /\ last.body.count = Len(rfidScans)
               /\ last.body.scans = rfidScans
          [] last.res = "stats" ->
               /\ last.body.activeDevices = Len(devices)
               /\ last.body.totalScans = Len(rfidScans)
\* the stats were just queried while the registry holds a device and no scan
C21_Witness ==
    /\ last.op = "query" /\ last.res = "stats"
    /\ Len(devices) = 1 /\ rfidScans = <<>>

\* C22: a Device record is never removed: the deviceIds of the map after any
\* step (bus message, connect or disconnect request, viewer event, query, bus
\* connection event) include the deviceIds of the map before it.
C22_DevicesNeverRemoved == [][MapKeys(devices) \subseteq MapKeys(devices')]_vars
\* a second device was added and the bus was then disconnected on request, with
\* one viewer registered: both devices are known
C22_Witness ==
    /\ Len(devices) = 2 /\ Cardinality(sockets) = 1
    /\ last.op = "disconnect_mqtt" /\ last.res = "ended"

\* C23: once a disconnect request has been handled, no bus connection is live
\* (connecting, connected or reconnecting), whatever connect requests came
\* before it: nothing is left to reconnect or to deliver a bus message.
C23_NoneLiveAfterDisconnect == last.op = "disconnect_mqtt" => LiveClients = {}

\* the bus connections that report a successful connect in this step
Connecting(h) == clients[h].status # "connected" /\ clients'[h].status = "connected"

\* C24: each time a bus connection reports a successful connect, the
\* subscription to the GPS and RFID topics is issued on that same connection,
\* whatever connect and disconnect requests were interleaved.
C24_SubscribedOnOwnConnection ==
    [][last'.op = "mqtt_connect" =>
         \A h \in Handles : Connecting(h) => clients'[h].sub = "pending"]_vars

\* the step ends, for every registered viewer, with a new status event
StatusPushed ==
    \A s \in sockets :
        /\ Len(inbox'[s]) > Len(inbox[s])
        /\ inbox'[s][Len(inbox'[s])].name = "mqtt_status"

\* C25: when the subscription of a connected bus connection fails, the
\* connection is kept (it is still connected, not ended) and the failure is
\* reported to every registered viewer through a status event.
C25_SubscribeFailureReported ==
    [][(last'.op = "subscribe_callback" /\ last'.res = "failed") =>
         /\ \A h \in Handles :
              (clients[h].sub = "pending" /\ clients'[h].sub = "failed")
                  => clients'[h].status = "connected"
         /\ StatusPushed]_vars

\* scheme, host and port of a URL [scheme://]host[:port][/path]: the scheme is
\* what stands before "://", the authority what follows up to the first "/",
\* the host the authority up to its ":" and the port the number after it (-1
\* when the authority has none)
UrlScheme(u) == IF Includes(u, SchemeSep) THEN Split(u, SchemeSep)[1] ELSE <<>>
UrlAuthority(u) ==
    LET rest == IF Includes(u, SchemeSep)
                THEN SubSeq(u, IndexOf(u, SchemeSep) + Len(SchemeSep), Len(u)) ELSE u
    IN IF Includes(rest, << Slash >>) THEN SubSeq(rest, 1, IndexOf(rest, << Slash >>) - 1) ELSE rest
UrlHost(u) ==
    LET a == UrlAuthority(u)
    IN IF Includes(a, << Colon >>) THEN SubSeq(a, 1, IndexOf(a, << Colon >>) - 1) ELSE a
UrlPort(u) ==
    LET a == UrlAuthority(u)
    IN IF Includes(a, << Colon >>) /\ IndexOf(a, << Colon >>) < Len(a)
       THEN a[IndexOf(a, << Colon >>) + 1].d ELSE -1
TlsSchemes == { << Word("mqtts") >>, << Word("wss") >> }

\* C26: the URL the README backend connects to has the scheme and the host of
\* the broker URL of the request (the scheme mqtt when the request gives none),
\* and as its port the explicit port of the request or, when the request gives
\* none, 8883 for a TLS scheme and 1883 otherwise; also for a URL with a path.
C26_BrokerUrlParsed ==
    \A h \in Handles :
        (impl = "README" /\ clients[h].status # "none") =>
            LET asked == clients[h].brokerUrl
                url == clients[h].url
            IN /\ UrlScheme(url) = IF UrlScheme(asked) = <<>> THEN << Word("mqtt") >>
                                   ELSE UrlScheme(asked)
               /\ UrlHost(url) = UrlHost(asked)
               /\ UrlPort(url) = IF UrlPort(asked) >= 0 THEN UrlPort(asked)
                                 ELSE IF UrlScheme(asked) \in TlsSchemes THEN DefaultTlsPort
                                 ELSE DefaultPort

\* C27: a bus message on a topic that is neither the GPS topic nor the RFID
\* topic of the connection changes nothing: whatever its payload, the Device
\* map and the scan log are as before and no viewer is sent an event.  (Stated
\* by contraposition: a message step that changes the registry or an inbox is
\* no delivery on another topic.)
C27_OtherTopicsIgnored ==
    [][(last'.op = "message" /\ <<registry, inbox>>' # <<registry, inbox>>) =>
         \A p \in Payloads : ~Delivery("other", p)]_vars
\* a message on another topic was just ignored, with a device and a viewer
\* present
C27_Witness ==
    /\ last.op = "message" /\ last.res = "ignored"
    /\ devices # <<>> /\ sockets # {} /\ nmsgs = 2

\* the handling of a message on the GPS topic by the backend that runs, as a
\* function of the registry, the payload and the clock
ApplyGPS(devs, scans, p, now) ==
    IF impl = "server.js"
    THEN onMessage(devs, scans, "devices/gps", "devices/rfid", "devices/gps", p)
    ELSE readmeOnMessage(devs, scans, "devices/gps", "devices/rfid", "devices/gps", p, now)
\* Date.now() at two messages in a row: the same second or a later one
TwoNowValues == NowValues \cup { now + 1 : now \in NowValues }

\* C28: device updates are idempotent: from every reachable registry, handling
\* the same valid GPS event (same dID, lat, lon and dTS) twice in a row leaves
\* the Device map and the scan log as they are after handling it once.
C28_DeviceUpdateIdempotent ==
    \A p \in Payloads :
        (IsValidGPSEvent(p) /\ p.dTS.t = "number") =>
            \A now1 \in TwoNowValues, now2 \in TwoNowValues :
                LET once == ApplyGPS(devices, rfidScans, p, now1)
                    twice == ApplyGPS(once.devs, once.scans, p, now2)
                IN twice.devs = once.devs /\ twice.scans = once.scans

\* the message of the scan made from payload p: "N/A" for an absent or empty msg
ScanMessage(p) == IF p.msg = Undef \/ p.msg = Str("") THEN Str("N/A") ELSE p.msg

\* C29: a valid RFID payload is stored at the head of the scan log and
\* broadcast to every registered viewer with the message "N/A" when its msg is
\* absent or empty, and with its msg unchanged otherwise.
C29_MessageDefaultsToNA ==
    [][\A p \in { q \in Payloads : IsValidScanEvent(q) } :
         Delivery("devices/rfid", p) =>
            /\ Len(rfidScans') = Len(rfidScans) + 1
            /\ rfidScans'[1].tagUID = p.uID
            /\ rfidScans'[1].message = ScanMessage(p)
            /\ \A s \in sockets :
                 /\ Len(Added(s)) = 1
                 /\ Added(s)[1].name = "rfid_scan"
                 /\ Added(s)[1].data.message = ScanMessage(p)]_vars

\* C30: GPS and scan events touch disjoint state: a message on the GPS topic
\* leaves the scan log unchanged and a message on the RFID topic leaves the
\* Device map unchanged, whatever the payload.  (Stated by contraposition: a
\* message step that changes the scan log is no delivery on the GPS topic, one
\* that changes the Device map is no delivery on the RFID topic.)
C30_DisjointState ==
    [][/\ (last'.op = "message" /\ rfidScans' # rfidScans) =>
             \A p \in Payloads : ~Delivery("devices/gps", p)
       /\ (last'.op = "message" /\ devices' # devices) =>
             \A p \in Payloads : ~Delivery("devices/rfid", p)]_vars
\* a GPS event and a scan event were applied, one after the other: the registry
\* holds one device and one scan
C30_Witness ==
    /\ last.op = "message" /\ last.res = "applied" /\ nmsgs = 2
    /\ Len(devices) = 1 /\ Len(rfidScans) = 1

\* C31: when the GPS topic and the RFID topic of the connection have the same
\* name, every message on that topic is handled as a GPS event only: the scan
\* log stays empty, whatever the payloads.
C31_SameTopicIsGPS == rfidScans = <<>>
\* a valid scan payload came on the shared topic and was applied as a GPS event
C31_Witness ==
    /\ last.op = "message" /\ last.res = "applied" /\ devices # <<>>
    /\ \E i \in 1..Len(gpsEvents) : gpsEvents[i].v.uID # Undef

\* a payload valid for its topic with a coordinate 0
ZeroCoordinate(topic, p) ==
    /\ IF topic = "devices/rfid" THEN IsValidScanEvent(p) ELSE IsValidGPSEvent(p)
    /\ p.lat = Num(0) \/ p.lon = Num(0)

\* C32: a payload with a non-empty dID (and uID on the RFID topic) whose lat
\* and/or lon is 0 is valid: it is applied to the registry and broadcast to
\* every registered viewer with the coordinate 0.
C32_ZeroCoordinateAccepted ==
    [][\A topic \in DataTopics :
         \A p \in { q \in Payloads : ZeroCoordinate(topic, q) } :
           Delivery(topic, p) =>
              /\ IF topic = "devices/gps"
                 THEN /\ MapHas(devices', p.dID)
                      /\ MapGet(devices', p.dID).latitude = p.lat
                      /\ MapGet(devices', p.dID).longitude = p.lon
                 ELSE /\ Len(rfidScans') = Len(rfidScans) + 1
                      /\ rfidScans'[1].latitude = p.lat
                      /\ rfidScans'[1].longitude = p.lon
              /\ \A s \in sockets :
                   /\ Len(Added(s)) = 1
                   /\ Added(s)[1].data.latitude = p.lat
                   /\ Added(s)[1].data.longitude = p.lon]_vars

\* a payload valid for its topic that carries a dTS
HasTimestamp(topic, p) ==
    /\ IF topic = "devices/rfid" THEN IsValidScanEvent(p) ELSE IsValidGPSEvent(p)
    /\ p.dTS.t = "number"

\* C33: a dTS supplied by the producer is stored and broadcast unchanged, for
\* every integer value and for 0 too: the timestamp of the Device record or of
\* the scan, and of the event sent to every registered viewer, is the dTS of
\* the payload.
C33_TimestampKept ==
    [][\A topic \in DataTopics :
         \A p \in { q \in Payloads : HasTimestamp(topic, q) } :
           Delivery(topic, p) =>
              /\ IF topic = "devices/gps"
                 THEN MapHas(devices', p.dID) /\ MapGet(devices', p.dID).timestamp = p.dTS
                 ELSE Len(rfidScans') = Len(rfidScans) + 1 /\ rfidScans'[1].timestamp = p.dTS
              /\ \A s \in sockets :
                   Len(Added(s)) = 1 /\ Added(s)[1].data.timestamp = p.dTS]_vars

\* the clients created by connect_mqtt whose connection has not closed
OpenClients == { h \in Handles : clients[h].status \in {"connecting", "connected", "ending"} }
\* the clients state.mqttConnections holds an entry for
HeldClients == { mqttConnections[i].v.client : i \in 1..Len(mqttConnections) }

\* C34: in src/server.js, state.mqttConnections holds an entry for exactly the
\* clients that were created by connect_mqtt and have not closed, so that the
\* mqttConnections figure of the stats is their number, also when two requests
\* used the same clientId.
C34_ConnectionsMapExact ==
    impl = "server.js" =>
        /\ HeldClients = OpenClients
        /\ Len(mqttConnections) = Cardinality(OpenClients)

\* C35: in src/server.js, when the SIGTERM handler has run, every MQTT client
\* that was created by a connect_mqtt request and had not closed is ended: none
\* is left connecting, connected or reconnecting.
C35_ShutdownEndsAllClients == last.op = "sigterm" => LiveClients = {}

\* the live connections whose viewer has disconnected
Orphans == { h \in Handles : Live(clients[h]) /\ clients[h].owner = "gone" }

\* C36: in src/server.js the bus connection a viewer created outlives that
\* viewer: the disconnect of a viewer leaves state.mqttConnections and every
\* client (status, subscription) as they are, and a message that comes in on a
\* connection whose viewer is gone is applied to the registry and broadcast to
\* every remaining viewer (shown for the payloads that carry a dTS).
C36_ConnectionOutlivesViewer ==
    [][impl = "server.js" =>
         /\ last'.op = "viewer_disconnect" =>
              /\ UNCHANGED mqttConnections
              /\ \A h \in Handles : /\ clients'[h].status = clients[h].status
                                    /\ clients'[h].sub = clients[h].sub
         /\ last'.op = "message" =>
              \A h \in Orphans, topic \in DataTopics :
                \A p \in { q \in FewPayloads : HasTimestamp(topic, q) } :
                  Deliver(h, topic, p) =>
                     /\ IF topic = "devices/gps"
                        THEN MapHas(devices', p.dID) /\ MapGet(devices', p.dID).latitude = p.lat
                        ELSE Len(rfidScans') = Len(rfidScans) + 1 /\ rfidScans'[1].tagUID = p.uID
                     /\ \A s \in sockets : Len(Added(s)) = 1 /\ AppliedBy(Added(s)[1])]_vars
\* the viewer that created the connection is gone, the connection is still
\* held, and a message of it was just applied and sent to the other viewer
C36_Witness ==
    /\ impl = "server.js" /\ Orphans # {} /\ Orphans \subseteq HeldClients
    /\ last.op = "message" /\ last.res = "applied" /\ devices # <<>>
    /\ \E s \in sockets : Len(inbox[s]) >= 2 /\ inbox[s][Len(inbox[s])].name = "gps_update"

====
